---- MODULE Spec2Model ----
(***************************************************************************)
(* Model of choderalab/moldr: the manifold classes of manifold_factory.py  *)
(* (Manifold, StiefelManifold, GrassmannManifold) and the loop of          *)
(* proj_grad_descent in steepest_descent.py.                               *)
(*                                                                         *)
(* A matrix is a sequence of rows, each row a sequence of integers.        *)
(* Python exceptions are modelled as outcomes: every evaluation returns a  *)
(* record [exc, val]; exc = "none" means the call returned val.            *)
(***************************************************************************)
EXTENDS Integers, Sequences, FiniteSets

\* ------------------------------------------------------------------ bounds
\* largest number of rows / columns of a Stiefel manifold of the model
MaxN == 3
MaxP == 2
\* largest magnitude of an entry of a direction U
MaxVal == 1
\* largest step size t
MaxT == 2
\* largest number of rows / columns of the manifold handed to proj_grad_descent
DescN == 2
DescP == 1
\* largest max_iter handed to proj_grad_descent
MaxIter == 2
\* the model follows a loop that does not end for IterCap iterations
IterCap == MaxIter + 2
\* convergence_threshold=0.1, in tenths
DefaultThreshold == 1

\* ------------------------------------------------------- numpy on matrices
Rows(A) == Len(A)

Cols(A) == Len(A[1])

shape(A) == <<Rows(A), Cols(A)>>

\* the n-by-p matrix with entries f(i, j), as a tuple of tuples (SubSeq
\* turns the function into the tuple it equals)
Vec(n, f(_)) == SubSeq([i \in 1..n |-> f(i)], 1, n)

Mat(n, p, f(_, _)) == LET Row(i) == LET E(j) == f(i, j) IN Vec(p, E) IN Vec(n, Row)

RECURSIVE SumTo(_, _)
SumTo(k, f) == IF k = 0 THEN 0 ELSE f[k] + SumTo(k - 1, f)

\* A.T
T(A) == LET E(i, j) == A[j][i] IN Mat(Cols(A), Rows(A), E)

\* np.dot(A, B) for 2-d arrays of matching inner dimension
dot(A, B) ==
  LET E(i, j) == SumTo(Cols(A), [k \in 1..Cols(A) |-> A[i][k] * B[k][j]])
  IN  Mat(Rows(A), Cols(B), E)

\* np.eye(k)
eye(k) == LET E(i, j) == IF i = j THEN 1 ELSE 0 IN Mat(k, k, E)

Zeros(n, p) == LET E(i, j) == 0 IN Mat(n, p, E)

\* A + B, A - B and c * A for arrays of equal shape / a scalar c
Add(A, B) == LET E(i, j) == A[i][j] + B[i][j] IN Mat(Rows(A), Cols(A), E)

Sub(A, B) == LET E(i, j) == A[i][j] - B[i][j] IN Mat(Rows(A), Cols(A), E)

Scale(c, A) == LET E(i, j) == c * A[i][j] IN Mat(Rows(A), Cols(A), E)

\* np.diag of a 2-d array: its diagonal, a vector
diagOf(A) ==
  LET E(i) == A[i][i] IN Vec(IF Rows(A) < Cols(A) THEN Rows(A) ELSE Cols(A), E)

\* np.diag of a vector: the square matrix with the vector on the diagonal
diagMat(v) == LET E(i, j) == IF i = j THEN v[i] ELSE 0 IN Mat(Len(v), Len(v), E)

\* numpy broadcasting of two 2-d shapes: an axis pair is compatible when the
\* lengths are equal or one of them is 1
Broadcastable(A, B) ==
  /\ (Rows(A) = Rows(B) \/ Rows(A) = 1 \/ Rows(B) = 1)
  /\ (Cols(A) = Cols(B) \/ Cols(A) = 1 \/ Cols(B) = 1)

Max(a, b) == IF a >= b THEN a ELSE b

\* the entry of A that broadcasting puts at (i, j)
Bc(A, i, j) == A[IF Rows(A) = 1 THEN 1 ELSE i][IF Cols(A) = 1 THEN 1 ELSE j]

Ok(v) == [exc |-> "none", val |-> v]

Raise(e) == [exc |-> e, val |-> <<>>]

\* A * B on ndarrays: the elementwise product with broadcasting
Multiply(A, B) ==
  IF Broadcastable(A, B)
  THEN LET E(i, j) == Bc(A, i, j) * Bc(B, i, j)
       IN  Ok(Mat(Max(Rows(A), Rows(B)), Max(Cols(A), Cols(B)), E))
  ELSE Raise("ValueError")

\* np.allclose(A, B): every broadcast pair of entries is close; the entries
\* of the model are integers, for which close means equal
allclose(A, B) ==
  IF Broadcastable(A, B)
  THEN Ok(\A i \in 1..Max(Rows(A), Rows(B)) :
          \A j \in 1..Max(Cols(A), Cols(B)) : Bc(A, i, j) = Bc(B, i, j))
  ELSE Raise("ValueError")

\* --------------------------------------------------------- input domains
Shapes == {s \in (1..MaxN) \X (1..MaxP) : s[2] <= s[1]}

Mats(n, p, vals) == [1..n -> [1..p -> vals]]

Orthonormal(X) == dot(T(X), X) = eye(Cols(X))

\* the integer points of the Stiefel manifold: orthonormal columns force
\* every column to be a signed unit vector, and distinct columns to sit in
\* distinct rows; column j has the entry sg[j] in row rw[j]
Points(n, p) ==
  {LET E(i, j) == IF f[1][j] = i THEN f[2][j] ELSE 0 IN Mat(n, p, E) :
     f \in {rw \in [1..p -> 1..n] : \A a, b \in 1..p : rw[a] = rw[b] => a = b}
           \X [1..p -> {-1, 1}]}

\* the directions U of the model: the zero matrix and the matrices with a
\* single non-zero entry v, 1 <= |v| <= MaxVal
Directions(n, p) ==
  {Zeros(n, p)} \cup
  {LET E(i, j) == IF <<i, j>> = f[1] THEN f[2] ELSE 0 IN Mat(n, p, E) :
     f \in ((1..n) \X (1..p)) \X ((-MaxVal..MaxVal) \ {0})}

\* a module-level name the module never binds: reading it raises NameError
\* unless the environment has bound it
Unbound == [bound |-> FALSE, val |-> 0]

UnboundMatrix == [bound |-> FALSE, val |-> <<>>]

Bound(v) == [bound |-> TRUE, val |-> v]

\* ------------------------------------------------------------------- state
VARIABLES
  self,          \* the manifold object the calls are made on
  mf_globals,    \* manifold_factory's module namespace: the free name p
  call,          \* the method call made on self, with its outcome
  args,          \* proj_grad_descent's arguments
  sd_globals,    \* steepest_descent's module namespace: grad, np, new_M, thresh
  pc,            \* position in proj_grad_descent
  M, old_M, free_grad, n_iter, converged, timed_out,
  ret,           \* what proj_grad_descent returned
  err,           \* the exception that ended proj_grad_descent
  oracle_calls   \* how many times obj_grad was called

mvars == <<self, mf_globals, call>>

dvars == <<args, sd_globals, pc, M, old_M, free_grad, n_iter,
           converged, timed_out, ret, err, oracle_calls>>

vars == <<self, mf_globals, call, args, sd_globals, pc, M, old_M,
          free_grad, n_iter, converged, timed_out, ret, err, oracle_calls>>

\* ------------------------------------------------------- manifold classes
\* Manifold.__init__: dim = None
Manifold ==
  [cls |-> "Manifold", n |-> 0, p |-> 0, dim |-> "None", dim2 |-> 0,
   implemented_ |-> "absent"]

\* StiefelManifold.__init__: dim = n*p - 0.5*(p*(p+1)) is a float, kept as
\* dim2 = 2*dim; typical_distance = sqrt(p) is read by no method
StiefelManifold(n, p) ==
  [cls |-> "StiefelManifold", n |-> n, p |-> p, dim |-> "float",
   dim2 |-> 2 * n * p - p * (p + 1), implemented_ |-> "absent"]

\* GrassmannManifold.__init__ sets implemented_ only: no attribute dim
GrassmannManifold ==
  [cls |-> "GrassmannManifold", n |-> 0, p |-> 0, dim |-> "absent", dim2 |-> 0,
   implemented_ |-> "False"]

\* utils.sign on a number
sign(x) == IF x > 0 THEN 1 ELSE IF x < 0 THEN -1 ELSE 0

\* proj with the symmetric part of X^T.U taken where the skew part is meant
proj_sym(X, U) ==
  LET XTU      == dot(T(X), U)
      sym_num  == Add(XTU, dot(T(U), X))
      XXT      == dot(X, T(X))
      I        == eye(Len(XXT))
  IN  Ok([num |-> Add(dot(X, sym_num), Scale(2, dot(Sub(I, XXT), U))), den |-> 2])

\* StiefelManifold.proj(X, U). The factor 0.5 makes the entries half-integers:
\* the value returned is the matrix num / den with den = 2
proj(X, U) ==
  LET XTU      == dot(T(X), U)
      skew_num == Sub(XTU, dot(T(U), X))
      XXT      == dot(X, T(X))
      I        == eye(Len(XXT))
  IN  Ok([num |-> Add(dot(X, skew_num), Scale(2, dot(Sub(I, XXT), U))), den |-> 2])

tangent(X, U) == proj(X, U)

egrad2rgrad(X, U) == proj(X, U)

\* np.linalg.qr(Y), reduced mode, for n >= p: every pair Q, R with Q of
\* orthonormal columns, R upper triangular and Q.R = Y; numpy fixes none of
\* the signs. Orthonormality forces R = Q^T.Y. pts is the set of candidate Q.
UpperTriangular(R) == \A i \in 1..Rows(R) : \A j \in 1..Cols(R) : i > j => R[i][j] = 0

qr(Y, pts) ==
  {f \in {<<Q, dot(T(Q), Y)>> : Q \in pts} :
     UpperTriangular(f[2]) /\ dot(f[1], f[2]) = Y}

\* sign(sign(np.diag(R)) + 0.5): sign(r) + 0.5 is taken doubled, 2*sign(r) + 1
signs(R) ==
  LET d    == diagOf(R)
      E(i) == sign(2 * sign(d[i]) + 1)
  IN  Vec(Len(d), E)

\* line 72 of retraction: Q * np.diag(...), the ndarray product
retractionOf(Q, R) == Multiply(Q, diagMat(signs(R)))

\* StiefelManifold.point_on_manifold(X); g is the module namespace, whose
\* name p the body reads where it means self.p
stiefel_point_on_manifold(slf, X, g) ==
  IF shape(X) = <<slf.n, slf.p>>
  THEN IF ~g.p.bound
       THEN Raise("NameError")
       ELSE LET c == allclose(dot(T(X), X), eye(g.p.val))
            IN  IF c.exc # "none" THEN c ELSE Ok(c.val)
  ELSE Ok(FALSE)

\* point_on_manifold as the class of self dispatches it
point_on_manifold(slf, X, g) ==
  IF slf.cls = "StiefelManifold"
  THEN stiefel_point_on_manifold(slf, X, g)
  ELSE Raise("NotImplementedError")

\* proj called with one argument, as Manifold declares it
proj1(slf) ==
  IF slf.cls = "StiefelManifold" THEN Raise("TypeError") ELSE Raise("NotImplementedError")

\* Manifold.random_vec: self.proj(npr.randn(self.dim)); the argument is
\* evaluated before proj is called
random_vec(slf) ==
  IF slf.dim = "absent" THEN Raise("AttributeError")
  ELSE IF slf.dim # "int" THEN Raise("TypeError")
  ELSE proj1(slf)

\* ------------------------------------------------- calls on a manifold
NoMatrix == <<>>

NoCall ==
  [op |-> "none", X |-> NoMatrix, U |-> NoMatrix, t |-> 0, Q |-> NoMatrix,
   R |-> NoMatrix, out |-> Raise("none")]

Called(op, X, U, t, Q, R, out) ==
  [op |-> op, X |-> X, U |-> U, t |-> t, Q |-> Q, R |-> R, out |-> out]

\* no call of proj_grad_descent is in progress
NoDescent ==
  /\ args = [init_point |-> NoMatrix, n |-> 0, p |-> 0,
             convergence_threshold |-> 0, max_iter |-> 0]
  /\ sd_globals = [grad |-> Unbound, np |-> Unbound, new_M |-> UnboundMatrix,
                   thresh |-> Unbound]
  /\ pc = "idle"
  /\ M = NoMatrix /\ old_M = NoMatrix /\ free_grad = NoMatrix
  /\ n_iter = 0 /\ converged = FALSE /\ timed_out = FALSE
  /\ ret = "no return" /\ err = "none" /\ oracle_calls = 0

CallProj ==
  /\ call = NoCall /\ self.cls = "StiefelManifold"
  /\ \E X \in Points(self.n, self.p), U \in Directions(self.n, self.p) :
       call' = Called("proj", X, U, 0, NoMatrix, NoMatrix, proj(X, U))
  /\ UNCHANGED <<self, mf_globals, dvars>>

CallTangent ==
  /\ call = NoCall /\ self.cls = "StiefelManifold"
  /\ \E X \in Points(self.n, self.p), U \in Directions(self.n, self.p) :
       call' = Called("tangent", X, U, 0, NoMatrix, NoMatrix, tangent(X, U))
  /\ UNCHANGED <<self, mf_globals, dvars>>

CallEgrad2rgrad ==
  /\ call = NoCall /\ self.cls = "StiefelManifold"
  /\ \E X \in Points(self.n, self.p), U \in Directions(self.n, self.p) :
       call' = Called("egrad2rgrad", X, U, 0, NoMatrix, NoMatrix, egrad2rgrad(X, U))
  /\ UNCHANGED <<self, mf_globals, dvars>>

\* retraction(X, U, t): Y = X + t*U, then Q, R = np.linalg.qr(Y), then line 72
CallRetraction ==
  /\ call = NoCall /\ self.cls = "StiefelManifold"
  /\ \E pts \in {Points(self.n, self.p)} :
     \E X \in pts, U \in Directions(self.n, self.p), t \in 0..MaxT :
     \E f \in qr(Add(X, Scale(t, U)), pts) :
       call' = Called("retraction", X, U, t, f[1], f[2], retractionOf(f[1], f[2]))
  /\ UNCHANGED <<self, mf_globals, dvars>>

CallPointOnManifold ==
  /\ call = NoCall
  /\ \E r \in 1..MaxN, c \in 1..MaxP :
     \E X \in Mats(r, c, {-1, 0, 1}) :
       call' = Called("point_on_manifold", X, NoMatrix, 0, NoMatrix, NoMatrix,
                      point_on_manifold(self, X, mf_globals))
  /\ UNCHANGED <<self, mf_globals, dvars>>

CallRandomVec ==
  /\ call = NoCall
  /\ call' = Called("random_vec", NoMatrix, NoMatrix, 0, NoMatrix, NoMatrix,
                    random_vec(self))
  /\ UNCHANGED <<self, mf_globals, dvars>>

\* proj(X) with the single argument the base class declares
CallProj1 ==
  /\ call = NoCall
  /\ \E r \in 1..MaxN, c \in 1..MaxP :
     \E X \in Mats(r, c, {-1, 0, 1}) :
       call' = Called("proj1", X, NoMatrix, 0, NoMatrix, NoMatrix, proj1(self))
  /\ UNCHANGED <<self, mf_globals, dvars>>

Stiefels == {StiefelManifold(s[1], s[2]) : s \in Shapes}

\* the tangent-space projector and its two aliases on Stiefel manifolds
InitProj ==
  /\ self \in Stiefels
  /\ mf_globals = [p |-> Unbound]
  /\ call = NoCall
  /\ NoDescent

NextProj == CallProj \/ CallTangent \/ CallEgrad2rgrad

SpecProj == InitProj /\ [][NextProj]_vars

\* the other methods, on objects of the three classes
InitManifold ==
  /\ self \in {Manifold, GrassmannManifold} \cup Stiefels
  /\ mf_globals \in [p : {Unbound} \cup {Bound(k) : k \in 1..MaxP}]
  /\ call = NoCall
  /\ NoDescent

NextManifold == CallRetraction \/ CallPointOnManifold \/ CallRandomVec \/ CallProj1

SpecManifold == InitManifold /\ [][NextManifold]_vars

\* ------------------------------------------------------ proj_grad_descent
\* thresholds are kept in tenths: 1 is 0.1, 30 is 3.0
Thresholds == {DefaultThreshold, 30}

\* obj_func of the model: f(M) = ||M - M0||^2 for the on-manifold target M0
\* whose columns are the first unit vectors
target(n, p) == LET E(i, j) == IF i = j THEN 1 ELSE 0 IN Mat(n, p, E)

\* obj_grad = grad(obj_func), line 16: the Euclidean gradient 2*(M - M0)
obj_grad(Mx) == Scale(2, Sub(Mx, target(Rows(Mx), Cols(Mx))))

RECURSIVE SumSeq(_)
SumSeq(q) == IF q = <<>> THEN 0 ELSE Head(q) + SumSeq(Tail(q))

\* the sum of the entries of (A - B)**2
SumSqDiff(A, B) ==
  SumSeq([i \in 1..Rows(A) |-> SumSeq([j \in 1..Cols(A) |-> (A[i][j] - B[i][j]) * (A[i][j] - B[i][j])])])

\* np.mean((A - B)**2) < th, th in tenths: the mean is the sum over the
\* Rows*Cols entries
MeanSqBelow(A, B, th) == 10 * SumSqDiff(A, B) < th * Rows(A) * Cols(A)

\* lines 16-25. obj_grad = grad(obj_func) reads the name grad
Enter ==
  /\ pc = "start"
  /\ IF ~sd_globals.grad.bound
     THEN /\ err' = "NameError" /\ pc' = "raised"
          /\ UNCHANGED <<M, converged, timed_out, n_iter>>
     ELSE /\ M' = args.init_point
          /\ converged' = FALSE /\ timed_out' = FALSE /\ n_iter' = 0
          /\ pc' = "while" /\ UNCHANGED err
  /\ UNCHANGED <<mvars, args, sd_globals, old_M, free_grad, ret, oracle_calls>>

\* line 26: while (not converged) and (not timed_out)
WhileTest ==
  /\ pc = "while"
  /\ IF (~converged) /\ (~timed_out)
     THEN n_iter < IterCap /\ pc' = "body"
     ELSE pc' = "exit"
  /\ UNCHANGED <<mvars, args, sd_globals, M, old_M, free_grad, n_iter,
                 converged, timed_out, ret, err, oracle_calls>>

\* CallObjGrad with the oracle's exception caught and the loop carried on
CallObjGrad_swallow ==
  /\ pc = "body"
  /\ old_M' = M
  /\ oracle_calls' = oracle_calls + 1
  /\ \/ /\ free_grad' = obj_grad(M) /\ pc' = "count" /\ UNCHANGED err
     \/ /\ err' = "OracleError" /\ pc' = "count" /\ UNCHANGED free_grad
  /\ UNCHANGED <<mvars, args, sd_globals, M, n_iter, converged,
                 timed_out, ret>>

\* lines 27-30: old_M = M; free_grad = obj_grad(M). The oracle returns the
\* gradient or raises; nothing in the function catches what it raises
CallObjGrad ==
  /\ pc = "body"
  /\ old_M' = M
  /\ oracle_calls' = oracle_calls + 1
  /\ \/ /\ free_grad' = obj_grad(M) /\ pc' = "count" /\ UNCHANGED err
     \/ /\ err' = "OracleError" /\ pc' = "raised" /\ UNCHANGED free_grad
  /\ UNCHANGED <<mvars, args, sd_globals, M, n_iter, converged,
                 timed_out, ret>>

\* line 41: n_iter += 1 (lines 31-40 are comments: M is not assigned)
Count ==
  /\ pc = "count"
  /\ n_iter' = n_iter + 1
  /\ pc' = "check"
  /\ UNCHANGED <<mvars, args, sd_globals, M, old_M, free_grad, converged,
                 timed_out, ret, err, oracle_calls>>

\* lines 42-44. The "if n_iter >= max_iter:" of line 42 is followed by no
\* suite: the next line, at the same indentation, is the next statement. So
\* the test of line 42 has no effect, and line 43 is evaluated in every
\* iteration; it reads np, new_M, old_M and thresh.
Check ==
  /\ pc = "check"
  /\ IF ~(sd_globals.np.bound /\ sd_globals.new_M.bound /\ sd_globals.thresh.bound)
     THEN err' = "NameError" /\ pc' = "raised" /\ UNCHANGED converged
     ELSE /\ converged' =
               IF MeanSqBelow(sd_globals.new_M.val, old_M, sd_globals.thresh.val)
               THEN TRUE ELSE converged
          /\ pc' = "while" /\ UNCHANGED err
  /\ UNCHANGED <<mvars, args, sd_globals, M, old_M, free_grad, n_iter,
                 timed_out, ret, oracle_calls>>

\* the end of the function: line 47 is the comment "# return M", so the
\* call returns None
Return ==
  /\ pc = "exit"
  /\ ret' = "None"
  /\ pc' = "returned"
  /\ UNCHANGED <<mvars, args, sd_globals, M, old_M, free_grad, n_iter,
                 converged, timed_out, err, oracle_calls>>

DescShapes == {s \in (1..DescN) \X (1..DescP) : s[2] <= s[1]}

\* a call proj_grad_descent(init_point, manifold, obj_func,
\* convergence_threshold, max_iter) has bound its arguments
InitDescent ==
  /\ \E s \in DescShapes :
       /\ self = StiefelManifold(s[1], s[2])
       /\ args \in [init_point : Points(s[1], s[2]), n : {s[1]}, p : {s[2]},
                    convergence_threshold : Thresholds, max_iter : 1..MaxIter]
       /\ sd_globals \in [grad : {Unbound, Bound(1)}, np : {Unbound, Bound(1)},
                          new_M : {UnboundMatrix} \cup {Bound(X) : X \in Points(s[1], s[2])},
                          thresh : {Unbound} \cup {Bound(th) : th \in Thresholds}]
  /\ mf_globals = [p |-> Unbound]
  /\ call = NoCall
  /\ pc = "start"
  /\ M = NoMatrix /\ old_M = NoMatrix /\ free_grad = NoMatrix
  /\ n_iter = 0 /\ converged = FALSE /\ timed_out = FALSE
  /\ ret = "no return" /\ err = "none" /\ oracle_calls = 0

NextDescent == Enter \/ WhileTest \/ CallObjGrad \/ Count \/ Check \/ Return

SpecDescent == InitDescent /\ [][NextDescent]_vars

\* ------------------------------------------------------------------ claims
IsProjCall == call.op \in {"proj", "tangent", "egrad2rgrad"}

\* C1: the loop leaves RUNNING after at most max_iter iterations: the counter
\* never exceeds max_iter, and when it has reached max_iter without
\* convergence the loop is TIMED_OUT
C1_TimesOut ==
  /\ n_iter <= args.max_iter
  /\ (pc = "while" /\ n_iter >= args.max_iter /\ ~converged) => timed_out

\* C2: a call that returns hands back the current point M together with a
\* status, CONVERGED when the convergence test ended the loop and TIMED_OUT
\* when the iteration budget did
C2_ReturnsPointAndStatus ==
  pc = "returned" =>
    /\ ret \notin {"no return", "None"}
    /\ ret.point = M
    /\ ret.status = (IF converged THEN "CONVERGED" ELSE "TIMED_OUT")

\* C3: retraction(X, U, t) returns a matrix of shape (n, p) with orthonormal
\* columns
C3_RetractionOnManifold ==
  call.op = "retraction" =>
    /\ call.out.exc = "none"
    /\ shape(call.out.val) = <<self.n, self.p>>
    /\ Orthonormal(call.out.val)

\* C4: for X with orthonormal columns, T = proj(X, U) has X^T.T + T^T.X = 0,
\* and tangent(X, U) and egrad2rgrad(X, U) return the value of proj(X, U)
C4_TangentSkew ==
  (IsProjCall /\ Orthonormal(call.X)) =>
    /\ call.out.exc = "none"
    /\ LET XtT == dot(T(call.X), call.out.val.num)
       IN  Add(XtT, T(XtT)) = Zeros(Cols(call.X), Cols(call.X))
    /\ call.out = proj(call.X, call.U)

C4_Witness ==
  /\ call.op = "egrad2rgrad"
  /\ shape(call.X) = <<3, 2>>
  /\ dot(T(call.X), call.U) # Zeros(2, 2)
  /\ call.out.exc = "none"
  /\ call.out.val.num # Zeros(3, 2)

\* C6: point_on_manifold(X) on a Stiefel manifold returns a boolean and never
\* fails: true exactly when X has shape (n, p) and X^T.X is the identity
C6_MembershipTotal ==
  (call.op = "point_on_manifold" /\ self.cls = "StiefelManifold") =>
    /\ call.out.exc = "none"
    /\ call.out.val = (shape(call.X) = <<self.n, self.p>> /\ Orthonormal(call.X))

\* C7: proj and point_on_manifold on the base Manifold, and proj, random_vec
\* and point_on_manifold on a GrassmannManifold, end in NotImplementedError
C7_NotImplemented ==
  (\/ self.cls = "Manifold" /\ call.op \in {"proj1", "point_on_manifold"}
   \/ self.cls = "GrassmannManifold"
        /\ call.op \in {"proj1", "random_vec", "point_on_manifold"})
    => call.out.exc = "NotImplementedError"

\* C8: once the gradient oracle has raised, the call has ended with that
\* error: the oracle was called once per finished iteration and once more, the
\* loop is neither CONVERGED nor TIMED_OUT, and nothing has been returned
C8_FailFast ==
  err = "OracleError" =>
    /\ pc = "raised"
    /\ oracle_calls = n_iter + 1
    /\ ~converged /\ ~timed_out
    /\ ret = "no return"

C8_Witness ==
  /\ err = "OracleError"
  /\ pc = "raised"
  /\ n_iter >= 1
  /\ oracle_calls = n_iter + 1

\* C9: the value of retraction is Q right-multiplied by the diagonal matrix D
\* with D_ii = +1 when R_ii >= 0 and D_ii = -1 when R_ii < 0
C9_SignCorrection ==
  call.op = "retraction" =>
    /\ call.out.exc = "none"
    /\ call.out.val =
         dot(call.Q, diagMat([i \in 1..Cols(call.Q) |->
                                IF call.R[i][i] >= 0 THEN 1 ELSE -1]))

\* C10: after each iteration the loop is CONVERGED exactly when the mean
\* squared difference between the new point and old_M is below the
\* convergence_threshold argument
C10_ConvergenceTest ==
  (pc = "while" /\ n_iter > 0) =>
    (converged <=>
       (sd_globals.new_M.bound
          /\ MeanSqBelow(sd_globals.new_M.val, old_M, args.convergence_threshold)))

====
